---- MODULE Spec2Model ----
(***************************************************************************)
(* Model of scripts/render_caption_overlay.py: probe the input video,      *)
(* split the text into 5-word caption lines, render one PNG per line into  *)
(* a temporary directory, compute the time windows, build the ffmpeg       *)
(* command with its filter graph, run the encoder.                         *)
(*                                                                         *)
(* Strings are sequences of one-character strings.  A float is a whole     *)
(* number of "ulps", UlpPerMs ulps to the millisecond; a division rounds   *)
(* to the nearest ulp (ties to even) as IEEE-754 division does, an         *)
(* addition or subtraction of two such values is exact, and "%.3f" rounds  *)
(* a value to the nearest millisecond.                                     *)
(***************************************************************************)
EXTENDS Integers, Sequences, FiniteSets, TLC

VARIABLES
    pc,             \* position of the run / of the function under check
    text,           \* --text
    target_seconds, \* --target-seconds, in ulps
    in_duration,    \* what ffprobe reported, in ulps
    final_duration, \* run: final_duration
    pad_duration,   \* run: pad_duration
    lines,          \* run: lines
    tempDir,        \* the TemporaryDirectory exists
    files,          \* idx -> font size of cap_idx.png, for the files on disk
    rendered,       \* number of images ever written by this run
    starts,         \* run: starts
    ends,           \* run: ends
    cmdInputs,      \* the "-i cap_i.png" inputs of cmd, in order (input 0 is the video)
    chain,          \* run: chain, the filter graph
    mapped,         \* the label given to "-map"
    afPad,          \* the "-af apad=pad_dur=" argument: <<ms>> or <<>>
    probeCalls,     \* invocations of ffprobe
    encodeCalls,    \* invocations of ffmpeg
    probeRes,       \* "none" | "ok" | "fail"
    encodeRes,      \* "none" | "ok" | "fail"
    exit,           \* -1 while running, 0 success, 1 uncaught exception
    widths,         \* fit_font: measured text width per font size
    max_width,      \* fit_font: max_width
    fontFound,      \* pick_font: a truetype candidate exists
    fitResult       \* fit_font: what it returned

vars == << pc, text, target_seconds, in_duration, final_duration, pad_duration,
           lines, tempDir, files, rendered, starts, ends, cmdInputs, chain,
           mapped, afPad, probeCalls, encodeCalls, probeRes, encodeRes, exit,
           widths, max_width, fontFound, fitResult >>

----------------------------------------------------------------------------
(* Bounds *)

MaxWords == 11          \* most words of an input text
MaxInMs == 3            \* longest source duration, in ms
MaxTargetMs == 4        \* largest --target-seconds, in ms
MinTargetMs == 1        \* --target-seconds goes down to -MinTargetMs ms

----------------------------------------------------------------------------
(* Strings *)

Letters == << "a", "b", "c", "d", "e", "f", "g", "h", "i", "j", "k", "l", "m", "n" >>

IsSpace(c) == c \in {" ", "\n", "\t"}

Min(a, b) == IF a <= b THEN a ELSE b

\* text.replace("\n", " ")
ReplaceNewlines(s) == [i \in 1..Len(s) |-> IF s[i] = "\n" THEN " " ELSE s[i]]

\* str.split(): the maximal runs of non-whitespace characters, in order
RECURSIVE SplitScan(_, _, _, _)
SplitScan(s, i, cur, acc) ==
    IF i > Len(s)
    THEN IF cur = << >> THEN acc ELSE Append(acc, cur)
    ELSE IF IsSpace(s[i])
         THEN SplitScan(s, i + 1, << >>, IF cur = << >> THEN acc ELSE Append(acc, cur))
         ELSE SplitScan(s, i + 1, Append(cur, s[i]), acc)

StrSplit(s) == SplitScan(s, 1, << >>, << >>)

\* " ".join(ws)
RECURSIVE Join(_)
Join(ws) ==
    IF ws = << >> THEN << >>
    ELSE IF Len(ws) = 1 THEN ws[1]
    ELSE ws[1] \o << " " >> \o Join(Tail(ws))

\* words[i : i + k] with Python's 0-based, clamped slice
Slice(ws, i, k) == SubSeq(ws, i + 1, Min(i + k, Len(ws)))

\* for i in range(0, len(words), words_per_line): lines.append(" ".join(...))
RECURSIVE ChunkLoop(_, _, _, _)
ChunkLoop(words, i, words_per_line, acc) ==
    IF i >= Len(words) THEN acc
    ELSE ChunkLoop(words, i + words_per_line, words_per_line,
                   Append(acc, Join(Slice(words, i, words_per_line))))

Placeholder == << ".", ".", "." >>

\* mutant: the empty text gives no line at all
split_words_NoPlaceholder(t, words_per_line) ==
    ChunkLoop(StrSplit(ReplaceNewlines(t)), 0, words_per_line, << >>)

\* mutant: the slice is one word short of the stride
split_words_ShortSlice(t, words_per_line) ==
    LET words == StrSplit(ReplaceNewlines(t))
        RECURSIVE Loop(_, _)
        Loop(i, acc) ==
            IF i >= Len(words) THEN acc
            ELSE Loop(i + words_per_line,
                      Append(acc, Join(Slice(words, i, words_per_line - 1))))
    IN  IF words = << >> THEN << Placeholder >> ELSE Loop(0, << >>)

split_words(t, words_per_line) ==
    LET words == StrSplit(ReplaceNewlines(t))
    IN  IF words = << >> THEN << Placeholder >>
        ELSE ChunkLoop(words, 0, words_per_line, << >>)

WordsPerLine == 5

----------------------------------------------------------------------------
(* Input texts: k distinct one-letter words, each pair separated by a      *)
(* space or by a newline followed by a space, with optional leading and    *)
(* trailing whitespace.                                                    *)

Seps == { << " " >>, << "\n", " " >> }
Leads == { << >>, << "\n" >> }
Trails == { << >>, << " " >> }

RECURSIVE MkText(_, _, _)
MkText(k, sep, i) ==
    IF i > k THEN << >>
    ELSE (IF i = 1 THEN << >> ELSE sep[i - 1]) \o << Letters[i] >> \o MkText(k, sep, i + 1)

Texts ==
    UNION { { l \o MkText(k, sep, 1) \o t :
                sep \in [1..(IF k = 0 THEN 0 ELSE k - 1) -> Seps], l \in Leads, t \in Trails } :
            k \in 0..MaxWords }

PlainText(k) == MkText(k, [j \in 1..MaxWords |-> << " " >>], 1)

RunTexts == { PlainText(k) : k \in 0..MaxWords } \cup { << "\n" >> \o PlainText(1) }

----------------------------------------------------------------------------
(* Floats *)

\* ulps per millisecond: odd, as no double lies halfway between two milliseconds
UlpPerMs == 1001

\* a / b rounded to the nearest ulp, ties to even (a >= 0, b > 0)
DivRound(a, b) ==
    LET q == a \div b
        r == a % b
    IN  IF 2 * r < b THEN q
        ELSE IF 2 * r > b THEN q + 1
        ELSE IF q % 2 = 0 THEN q ELSE q + 1

\* f"{v:.3f}": the value in whole milliseconds
Format3(v) == DivRound(v, UlpPerMs)

Max(a, b) == IF a >= b THEN a ELSE b

InDurations == { d * UlpPerMs : d \in 0..MaxInMs }
TargetValues == { t * UlpPerMs : t \in (0 - MinTargetMs)..MaxTargetMs }

----------------------------------------------------------------------------
(* Fonts: pick_font and fit_font *)

Sizes == << 62, 58, 54, 50, 46, 42, 38, 34 >>
FallbackSize == 30
DefaultFont == [kind |-> "default", size |-> 0]

\* the keys of a width table: every size asked for, and 0 for the default font
FontKeys == { Sizes[k] : k \in 1..Len(Sizes) } \cup { FallbackSize, 0 }

\* ImageFont.truetype(candidate, size) when a candidate exists, else load_default()
pick_font(size, found) ==
    IF found THEN [kind |-> "truetype", size |-> size] ELSE DefaultFont

\* bbox[2] - bbox[0] of draw.textbbox((0, 0), text, font=font, stroke_width=3)
TextWidth(font, w) == w[font.size]

RECURSIVE FitLoop(_, _, _, _)
FitLoop(k, w, mw, found) ==
    IF k > Len(Sizes)
    THEN [font |-> pick_font(FallbackSize, found),
          text_w |-> TextWidth(pick_font(FallbackSize, found), w), asked |-> FallbackSize]
    ELSE IF TextWidth(pick_font(Sizes[k], found), w) <= mw
         THEN [font |-> pick_font(Sizes[k], found),
               text_w |-> TextWidth(pick_font(Sizes[k], found), w), asked |-> Sizes[k]]
         ELSE FitLoop(k + 1, w, mw, found)

\* mutant: the comparison is strict
fit_font_Strict(w, mw, found) ==
    LET RECURSIVE Loop(_)
        Loop(k) ==
            IF k > Len(Sizes)
            THEN [font |-> pick_font(FallbackSize, found),
                  text_w |-> TextWidth(pick_font(FallbackSize, found), w), asked |-> FallbackSize]
            ELSE IF TextWidth(pick_font(Sizes[k], found), w) < mw
                 THEN [font |-> pick_font(Sizes[k], found),
                       text_w |-> TextWidth(pick_font(Sizes[k], found), w), asked |-> Sizes[k]]
                 ELSE Loop(k + 1)
    IN  Loop(1)

fit_font(w, mw, found) == FitLoop(1, w, mw, found)

CanvasWidth == 980
Margin == 70

WidthValues == { CanvasWidth - Margin, CanvasWidth - Margin + 1 }
MaxWidths == { CanvasWidth - Margin - 1, CanvasWidth - Margin, CanvasWidth - Margin + 1 }
NoFit == [widths |-> [s \in FontKeys |-> 0], asked |-> 0, font |-> DefaultFont, text_w |-> 0]

\* the width tables a render step may meet: the text fits up to some size
RenderWidths ==
    { [s \in FontKeys |-> IF s <= cut THEN CanvasWidth - Margin ELSE CanvasWidth - Margin + 1] :
        cut \in { Sizes[1], Sizes[Len(Sizes)], FallbackSize } }

----------------------------------------------------------------------------
(* run: durations, time windows, command *)

\* final_duration = target_seconds if target_seconds > 0 else in_duration
FinalDuration(target, ind) == IF target > 0 THEN target ELSE ind

PadDuration(final, ind) == Max(0, final - ind)

RECURSIVE TimelineLoop(_, _, _, _, _)
TimelineLoop(k, cur, step, st, en) ==
    IF k = 0 THEN [starts |-> st, ends |-> en]
    ELSE TimelineLoop(k - 1, cur + step, step, Append(st, cur), Append(en, cur + step))

\* mutant: the last end is left as accumulated
Timeline_NoFix(final, n) ==
    TimelineLoop(n, 0, DivRound(final, Max(n, 1)), << >>, << >>)

Timeline(final, n) ==
    LET r == TimelineLoop(n, 0, DivRound(final, Max(n, 1)), << >>, << >>)
    IN  [starts |-> r.starts, ends |-> [r.ends EXCEPT ![n] = final]]

\* for i in range(1, len(lines) + 1): cmd += [..., "-i", cap_i.png]
CmdInputsOf(n) == [i \in 1..n |-> i]

Label(k, i) == [k |-> k, i |-> i]
L0v == Label("0:v", 0)
Lvbase == Label("vbase", 0)
Lvout == Label("vout", 0)

TpadEntry(pad) ==
    [op |-> "tpad", in |-> L0v, img |-> 0, s |-> 0, e |-> 0, stop |-> Format3(pad), out |-> Lvbase]

OverlayEntry(prev, i, st, en, out) ==
    [op |-> "overlay", in |-> prev, img |-> i, s |-> Format3(st[i]), e |-> Format3(en[i]),
     stop |-> 0, out |-> out]

RECURSIVE OverlayLoop(_, _, _, _, _, _)
OverlayLoop(i, n, prev, st, en, acc) ==
    IF i > n THEN acc
    ELSE LET out == IF i = n THEN Lvout ELSE Label("v", i)
         IN  OverlayLoop(i + 1, n, out, st, en, Append(acc, OverlayEntry(prev, i, st, en, out)))

\* mutant: every overlay reads the base video
BuildChain_NoPrev(n, pad, st, en) ==
    LET RECURSIVE Loop(_, _)
        Loop(i, acc) ==
            IF i > n THEN acc
            ELSE Loop(i + 1, Append(acc, OverlayEntry(IF pad > 0 THEN Lvbase ELSE L0v, i, st, en,
                                                      IF i = n THEN Lvout ELSE Label("v", i))))
    IN  Loop(1, IF pad > 0 THEN << TpadEntry(pad) >> ELSE << >>)

\* mutant: the video is padded whenever the pad is not negative
BuildChain_PadAlways(n, pad, st, en) ==
    IF pad >= 0
    THEN OverlayLoop(1, n, Lvbase, st, en, << TpadEntry(pad) >>)
    ELSE OverlayLoop(1, n, L0v, st, en, << >>)

\* mutant: overlay i is enabled for the window of line i + 1
BuildChain_ShiftedWindow(n, pad, st, en) ==
    LET sh(x) == [i \in 1..n |-> x[IF i = n THEN 1 ELSE i + 1]]
    IN  IF pad > 0
        THEN OverlayLoop(1, n, Lvbase, sh(st), sh(en), << TpadEntry(pad) >>)
        ELSE OverlayLoop(1, n, L0v, sh(st), sh(en), << >>)

BuildChain(n, pad, st, en) ==
    IF pad > 0
    THEN OverlayLoop(1, n, Lvbase, st, en, << TpadEntry(pad) >>)
    ELSE OverlayLoop(1, n, L0v, st, en, << >>)

\* if pad_duration > 0: cmd += ["-af", f"apad=pad_dur={pad_duration:.3f}"]
AudioPad(pad) == IF pad > 0 THEN << Format3(pad) >> ELSE << >>

\* ffmpeg's between(t, min, max): 1 if min <= t <= max, else 0
Between(t, lo, hi) == lo <= t /\ t <= hi

----------------------------------------------------------------------------
(* The run *)

NoRun ==
    /\ in_duration = 0 /\ final_duration = 0 /\ pad_duration = 0
    /\ lines = << >> /\ tempDir = FALSE /\ files = << >> /\ rendered = 0
    /\ starts = << >> /\ ends = << >> /\ cmdInputs = << >> /\ chain = << >>
    /\ mapped = L0v /\ afPad = << >>
    /\ probeCalls = 0 /\ encodeCalls = 0 /\ probeRes = "none" /\ encodeRes = "none"
    /\ exit = -1

NoFitCall ==
    /\ widths = NoFit.widths /\ max_width = CanvasWidth - Margin
    /\ fitResult = [font |-> NoFit.font, text_w |-> NoFit.text_w, asked |-> NoFit.asked]

Init ==
    /\ pc = "start"
    /\ text \in RunTexts
    /\ target_seconds \in TargetValues
    /\ fontFound \in BOOLEAN
    /\ NoRun
    /\ NoFitCall

fitVars == << widths, max_width, fontFound, fitResult >>
inputVars == << text, target_seconds >>
cmdVars == << starts, ends, cmdInputs, chain, mapped, afPad >>

\* ffprobe exits non-zero (or prints no number): check_output / float raises
\* mutant: the failure is swallowed and the run goes on with a zero duration
ProbeFail_Swallowed ==
    /\ pc = "start"
    /\ probeCalls' = probeCalls + 1
    /\ probeRes' = "fail"
    /\ in_duration' = 0
    /\ final_duration' = FinalDuration(target_seconds, 0)
    /\ pad_duration' = PadDuration(final_duration', 0)
    /\ lines' = split_words(text, WordsPerLine)
    /\ pc' = "probed"
    /\ UNCHANGED << inputVars, tempDir, files, rendered, cmdVars, encodeCalls, encodeRes,
                    exit, fitVars >>

ProbeFail ==
    /\ pc = "start"
    /\ probeCalls' = probeCalls + 1
    /\ probeRes' = "fail"
    /\ pc' = "failed"
    /\ exit' = 1
    /\ UNCHANGED << inputVars, in_duration, final_duration, pad_duration, lines, tempDir,
                    files, rendered, cmdVars, encodeCalls, encodeRes, fitVars >>

\* lines 99-103: the probe succeeds, the durations and the lines are computed
ProbeOk ==
    /\ pc = "start"
    /\ probeCalls' = probeCalls + 1
    /\ probeRes' = "ok"
    /\ \E d \in InDurations : in_duration' = d
    /\ final_duration' = FinalDuration(target_seconds, in_duration')
    /\ pad_duration' = PadDuration(final_duration', in_duration')
    /\ lines' = split_words(text, WordsPerLine)
    /\ pc' = "probed"
    /\ UNCHANGED << inputVars, tempDir, files, rendered, cmdVars, encodeCalls, encodeRes,
                    exit, fitVars >>

\* lines 105-106, 68: the temporary directory is created
MakeTempDir ==
    /\ pc = "probed"
    /\ tempDir' = TRUE
    /\ pc' = "render"
    /\ UNCHANGED << inputVars, in_duration, final_duration, pad_duration, lines, files,
                    rendered, cmdVars, probeCalls, encodeCalls, probeRes, encodeRes, exit,
                    fitVars >>

\* one iteration of the loop of render_caption_pngs: cap_idx.png is written
RenderOne ==
    /\ pc = "render"
    /\ rendered < Len(lines)
    /\ \E w \in RenderWidths :
         files' = files @@ ((rendered + 1) :> fit_font(w, CanvasWidth - Margin, fontFound).font.size)
    /\ rendered' = rendered + 1
    /\ pc' = IF rendered' = Len(lines) THEN "timeline" ELSE "render"
    /\ UNCHANGED << inputVars, in_duration, final_duration, pad_duration, lines, tempDir,
                    cmdVars, probeCalls, encodeCalls, probeRes, encodeRes, exit, fitVars >>

\* an iteration raises (the image cannot be drawn or saved): the with block is left,
\* the directory and its files are removed, the exception ends the run
RenderFail ==
    /\ pc = "render"
    /\ rendered < Len(lines)
    /\ tempDir' = FALSE
    /\ files' = << >>
    /\ pc' = "failed"
    /\ exit' = 1
    /\ UNCHANGED << inputVars, in_duration, final_duration, pad_duration, lines, rendered,
                    cmdVars, probeCalls, encodeCalls, probeRes, encodeRes, fitVars >>

\* lines 109-164: the windows, the inputs, the filter graph, the rest of cmd
BuildCmd ==
    /\ pc = "timeline"
    /\ LET tl == Timeline(final_duration, Len(lines))
       IN  /\ starts' = tl.starts
           /\ ends' = tl.ends
           /\ chain' = BuildChain(Len(lines), pad_duration, tl.starts, tl.ends)
    /\ cmdInputs' = CmdInputsOf(Len(lines))
    /\ mapped' = Lvout
    /\ afPad' = AudioPad(pad_duration)
    /\ pc' = "encode"
    /\ UNCHANGED << inputVars, in_duration, final_duration, pad_duration, lines, tempDir,
                    files, rendered, probeCalls, encodeCalls, probeRes, encodeRes, exit,
                    fitVars >>

\* line 166: ffmpeg is started
EncodeStart ==
    /\ pc = "encode"
    /\ encodeCalls' = encodeCalls + 1
    /\ pc' = "encoding"
    /\ UNCHANGED << inputVars, in_duration, final_duration, pad_duration, lines, tempDir,
                    files, rendered, cmdVars, probeCalls, probeRes, encodeRes, exit, fitVars >>

\* ffmpeg exits 0: the with block ends, the directory is removed
EncodeOk ==
    /\ pc = "encoding"
    /\ encodeRes' = "ok"
    /\ tempDir' = FALSE
    /\ files' = << >>
    /\ pc' = "done"
    /\ exit' = 0
    /\ UNCHANGED << inputVars, in_duration, final_duration, pad_duration, lines, rendered,
                    cmdVars, probeCalls, encodeCalls, probeRes, fitVars >>

\* mutant: the directory outlives a failed encode
EncodeFail_NoCleanup ==
    /\ pc = "encoding"
    /\ encodeRes' = "fail"
    /\ pc' = "failed"
    /\ exit' = 1
    /\ UNCHANGED << inputVars, in_duration, final_duration, pad_duration, lines, rendered,
                    tempDir, files, cmdVars, probeCalls, encodeCalls, probeRes, fitVars >>

\* ffmpeg exits non-zero: check=True raises, the with block removes the directory,
\* the exception ends the run
EncodeFail ==
    /\ pc = "encoding"
    /\ encodeRes' = "fail"
    /\ tempDir' = FALSE
    /\ files' = << >>
    /\ pc' = "failed"
    /\ exit' = 1
    /\ UNCHANGED << inputVars, in_duration, final_duration, pad_duration, lines, rendered,
                    cmdVars, probeCalls, encodeCalls, probeRes, fitVars >>

Next ==
    \/ ProbeOk
    \/ ProbeFail
    \/ MakeTempDir
    \/ RenderOne
    \/ RenderFail
    \/ BuildCmd
    \/ EncodeStart
    \/ EncodeOk
    \/ EncodeFail

Spec == Init /\ [][Next]_vars

----------------------------------------------------------------------------
(* split_words on its own *)

InitSplit ==
    /\ pc = "split_call"
    /\ text \in Texts
    /\ target_seconds = 0
    /\ fontFound = FALSE
    /\ NoRun
    /\ NoFitCall

SplitCall ==
    /\ pc = "split_call"
    /\ lines' = split_words(text, WordsPerLine)
    /\ pc' = "split_done"
    /\ UNCHANGED << inputVars, in_duration, final_duration, pad_duration, tempDir, files,
                    rendered, cmdVars, probeCalls, encodeCalls, probeRes, encodeRes, exit,
                    fitVars >>

NextSplit == SplitCall

SpecSplit == InitSplit /\ [][NextSplit]_vars

----------------------------------------------------------------------------
(* fit_font on its own *)

InitFit ==
    /\ pc = "fit_call"
    /\ text = << >>
    /\ target_seconds = 0
    /\ NoRun
    /\ widths \in [FontKeys -> WidthValues]
    /\ max_width \in MaxWidths
    /\ fontFound \in BOOLEAN
    /\ fitResult = [font |-> NoFit.font, text_w |-> NoFit.text_w, asked |-> NoFit.asked]

FitCall ==
    /\ pc = "fit_call"
    /\ fitResult' = fit_font(widths, max_width, fontFound)
    /\ pc' = "fit_done"
    /\ UNCHANGED << inputVars, in_duration, final_duration, pad_duration, lines, tempDir,
                    files, rendered, cmdVars, probeCalls, encodeCalls, probeRes, encodeRes,
                    exit, widths, max_width, fontFound >>

NextFit == FitCall

SpecFit == InitFit /\ [][NextFit]_vars

----------------------------------------------------------------------------
(* Vocabulary of the properties *)

Ceil(a, b) == (a + b - 1) \div b

Whitespace == { " ", "\n", "\t" }

\* the positions of a string where a word begins / ends
WordStarts(t) ==
    { i \in 1..Len(t) : t[i] \notin Whitespace /\ (i = 1 \/ t[i - 1] \in Whitespace) }
WordEnd(t, i) ==
    CHOOSE j \in i..Len(t) :
        /\ \A m \in i..j : t[m] \notin Whitespace
        /\ (j = Len(t) \/ t[j + 1] \in Whitespace)

WordCount(t) == Cardinality(WordStarts(t))

\* the words of a string, in order
WordsOf(t) ==
    [k \in 1..WordCount(t) |->
        LET i == CHOOSE x \in WordStarts(t) :
                    Cardinality({ y \in WordStarts(t) : y < x }) = k - 1
        IN  SubSeq(t, i, WordEnd(t, i))]

RECURSIVE Flatten(_)
Flatten(ls) == IF ls = << >> THEN << >> ELSE WordsOf(ls[1]) \o Flatten(Tail(ls))

RECURSIVE SumSeq(_)
SumSeq(q) == IF q = << >> THEN 0 ELSE q[1] + SumSeq(Tail(q))

TimelineReached == pc \in { "encode", "encoding", "done" } \/ encodeRes = "fail"
CmdBuilt == TimelineReached

\* the windows (starts[i], ends[i]) partition [0, T] contiguously
WindowsPartition(T) ==
    LET n == Len(lines)
    IN  /\ Len(starts) = n /\ Len(ends) = n
        /\ starts[1] = 0
        /\ \A i \in 1..(n - 1) : ends[i] = starts[i + 1]
        /\ \A i \in 1..n : starts[i] <= ends[i]
        /\ ends[n] = T
        /\ SumSeq([i \in 1..n |-> ends[i] - starts[i]]) = T

Overlays == SelectSeq(chain, LAMBDA c : c.op = "overlay")
Tpads == SelectSeq(chain, LAMBDA c : c.op = "tpad")

\* overlay i draws its caption at time t (in ms)
OverlayEnabled(i, t) == Between(t, Overlays[i].s, Overlays[i].e)

Writers(l) == { k \in 1..Len(chain) : chain[k].out = l }
Readers(l) == { k \in 1..Len(chain) : chain[k].in = l }

ListSizes == { Sizes[k] : k \in 1..Len(Sizes) }
Fitting == { s \in ListSizes : TextWidth(pick_font(s, fontFound), widths) <= max_width }
Largest(S) == CHOOSE s \in S : \A x \in S : x <= s
Smallest(S) == CHOOSE s \in S : \A x \in S : s <= x

----------------------------------------------------------------------------
(* C1 *)

\* C1 as stated: split_words(text, 5) returns exactly ceil(word_count/5) lines for
\* every word count, zero included.
C1_LineCountIsCeil ==
    pc = "split_done" => Len(lines) = Ceil(WordCount(text), WordsPerLine)

\* C1 amended: split_words(text, 5) returns ceil(word_count/5) lines for a text of
\* at least one word, and one line for a text of no word.
C1_LineCountIsCeilOrOne ==
    pc = "split_done" =>
        Len(lines) = IF WordCount(text) = 0 THEN 1 ELSE Ceil(WordCount(text), WordsPerLine)

C1_Witness ==
    pc = "split_done" /\ WordCount(text) = WordsPerLine + 1 /\ Len(lines) = 2

(* C9 *)

\* C9: for a text of at least one word the words of the lines, in order, are the
\* words of the text, every line but the last has 5 words and the last has 1 to 5;
\* for a text of no word the result is the one line "..."; it is never empty.
C9_ChunksKeepWords ==
    pc = "split_done" =>
        /\ lines # << >>
        /\ IF WordCount(text) = 0
           THEN lines = << Placeholder >>
           ELSE /\ Flatten(lines) = WordsOf(text)
                /\ \A j \in 1..(Len(lines) - 1) : WordCount(lines[j]) = WordsPerLine
                /\ WordCount(lines[Len(lines)]) \in 1..WordsPerLine

C9_Witness ==
    /\ pc = "split_done"
    /\ WordCount(text) = 2 * WordsPerLine + 1
    /\ Len(lines) = 3
    /\ WordCount(lines[3]) = 1
    /\ \E i \in 1..Len(text) : text[i] = "\n"

(* C2 *)

\* C2 as stated: the windows partition [0, --target-seconds] for every value of
\* --target-seconds and every source duration.
C2_WindowsPartitionTarget ==
    TimelineReached => WindowsPartition(target_seconds)

\* C2 amended: the windows partition [0, final_duration], which is --target-seconds
\* when that is positive and the source duration otherwise.
C2_WindowsPartitionFinal ==
    TimelineReached =>
        WindowsPartition(IF target_seconds > 0 THEN target_seconds ELSE in_duration)

C2_Witness ==
    /\ pc = "encode"
    /\ Len(lines) = 3
    /\ target_seconds <= 0
    /\ in_duration > 0
    /\ ends[3] = in_duration
    /\ starts[3] > 0

(* C3 *)

\* C3: a caption is visible exactly for the half-open window [start, end), so at
\* no time t of [0, final_duration] two caption overlays are enabled at once (stated
\* for the runs whose final duration is positive).
C3_NoTwoOverlaysAtOnce ==
    (CmdBuilt /\ final_duration > 0) =>
        \A t \in 0..Format3(final_duration) :
            Cardinality({ i \in 1..Len(Overlays) : OverlayEnabled(i, t) }) <= 1

(* C4 *)

\* C4: while the command exists and the run has not ended, the files are exactly
\* cap_1 .. cap_n, the command's image inputs are 1..n in order, and overlay i takes
\* input i and is enabled for the window of line i.
C4_OneImageOneWindow ==
    pc \in { "encode", "encoding" } =>
        LET n == Len(lines)
        IN  /\ DOMAIN files = 1..n
            /\ rendered = n
            /\ cmdInputs = [i \in 1..n |-> i]
            /\ Len(starts) = n /\ Len(ends) = n
            /\ Len(Overlays) = n
            /\ \A i \in 1..n :
                 /\ Overlays[i].img = i
                 /\ Overlays[i].s = Format3(starts[i])
                 /\ Overlays[i].e = Format3(ends[i])

C4_Witness ==
    /\ pc = "encoding"
    /\ Len(lines) = 3
    /\ Len(Overlays) = 3
    /\ Overlays[2].e < Overlays[3].e
    /\ Overlays[1].e < Overlays[2].e

(* C5 *)

\* C5 as stated: fit_font returns the font of the largest listed size whose width
\* fits, and the font of the smallest listed size when none fits.
C5_FallbackIsListMinimum ==
    pc = "fit_done" =>
        fitResult.font = pick_font(IF Fitting # {} THEN Largest(Fitting)
                                   ELSE Smallest(ListSizes), fontFound)

\* C5 amended: fit_font returns the font of the largest listed size whose width
\* fits, and the font of size 30 when none fits.
C5_FallbackIsThirty ==
    pc = "fit_done" =>
        /\ fitResult.font = pick_font(IF Fitting # {} THEN Largest(Fitting)
                                      ELSE FallbackSize, fontFound)
        /\ fitResult.text_w = TextWidth(fitResult.font, widths)

C5_Witness ==
    /\ pc = "fit_done"
    /\ fontFound
    /\ Fitting # {}
    /\ Largest(Fitting) # Sizes[1]
    /\ fitResult.font.size = Largest(Fitting)
    /\ fitResult.text_w = max_width

(* C6 *)

\* C6: tpad and apad are both present iff final_duration > in_duration, both carry
\* final_duration - in_duration, and otherwise the overlays start from [0:v].
C6_PadIffLonger ==
    CmdBuilt =>
        LET fd == IF target_seconds > 0 THEN target_seconds ELSE in_duration
        IN  /\ (Len(Tpads) >= 1) <=> (fd > in_duration)
            /\ (afPad # << >>) <=> (fd > in_duration)
            /\ fd > in_duration =>
                 /\ Len(Tpads) = 1
                 /\ chain[1] = Tpads[1]
                 /\ Tpads[1].in = L0v
                 /\ Tpads[1].stop = Format3(fd - in_duration)
                 /\ afPad = << Format3(fd - in_duration) >>
            /\ fd <= in_duration =>
                 /\ chain[1].op = "overlay"
                 /\ chain[1].in = L0v

C6_Witness ==
    /\ pc = "encode"
    /\ final_duration > in_duration
    /\ in_duration > 0
    /\ Len(Tpads) = 1
    /\ afPad # << >>

(* C7 *)

\* C7: a failed probe ends the run failed with no image rendered and no encoder
\* call; a failed encode ends the run failed; the run succeeds only when both
\* succeeded; the probe and the encoder are each invoked at most once.
C7_FailureAborts ==
    /\ probeCalls <= 1
    /\ encodeCalls <= 1
    /\ probeRes = "fail" =>
         pc = "failed" /\ exit = 1 /\ rendered = 0 /\ encodeCalls = 0 /\ ~tempDir
    /\ encodeRes = "fail" => pc = "failed" /\ exit = 1
    /\ pc = "failed" <=> exit = 1
    /\ exit = 0 => probeRes = "ok" /\ encodeRes = "ok" /\ pc = "done"

C7_Witness ==
    pc = "failed" /\ encodeRes = "fail" /\ encodeCalls = 1 /\ probeCalls = 1

(* C8 *)

\* C8: in every terminal state the temporary directory and its images are gone,
\* and while the encoder runs all of cap_1 .. cap_n exist.
C8_TempFilesScoped ==
    /\ pc \in { "done", "failed" } => ~tempDir /\ DOMAIN files = {}
    /\ pc = "encoding" => tempDir /\ DOMAIN files = 1..Len(lines)
    /\ DOMAIN files # {} => tempDir

C8_Witness ==
    pc = "failed" /\ encodeRes = "fail" /\ rendered = 3 /\ ~tempDir /\ DOMAIN files = {}

(* C10 *)

\* C10: the filter graph is a linear chain: the first overlay reads [vbase] when
\* padded and [0:v] otherwise, overlay i reads what overlay i-1 wrote, [v1] ..
\* [v(n-1)] are each written once and read once, the last overlay writes [vout],
\* and the mapped label [vout] is written exactly once.
C10_LinearChain ==
    CmdBuilt =>
        LET n == Len(lines)
        IN  /\ Len(Overlays) = n
            /\ n >= 1
            /\ Overlays[1].in = IF pad_duration > 0 THEN Lvbase ELSE L0v
            /\ pad_duration > 0 => Cardinality(Writers(Lvbase)) = 1 /\ Writers(Lvbase) = { 1 }
            /\ \A i \in 2..n : Overlays[i].in = Overlays[i - 1].out
            /\ \A i \in 1..(n - 1) :
                 /\ Overlays[i].out = Label("v", i)
                 /\ Cardinality(Writers(Label("v", i))) = 1
                 /\ Cardinality(Readers(Label("v", i))) = 1
            /\ Overlays[n].out = Lvout
            /\ mapped = Lvout
            /\ Cardinality(Writers(Lvout)) = 1
            /\ Readers(Lvout) = {}

C10_Witness ==
    /\ pc = "encode"
    /\ Len(lines) = 3
    /\ pad_duration > 0
    /\ Len(chain) = 4
    /\ chain[4].out = Lvout

====
